---- MODULE Spec2Model ----
(***************************************************************************)
(* Model of orthobullets_cases_rss.py: one run of main(), from entering    *)
(* the Playwright context to writing the RSS and JSON documents.           *)
(*                                                                         *)
(* Text (titles, hrefs, links) is a sequence of tokens, so that an empty   *)
(* string is <<>>, whitespace is the token " ", and a URL is its host      *)
(* token followed by its path tokens.  Python's None is identified with    *)
(* the empty string wherever the code only tests truthiness.  Instants are *)
(* counted in ticks, TicksPerMinute to the minute; the absent datetime      *)
(* (None) is NoneDt.  main() reads the clock at Now for the cutoff; the     *)
(* readings taken later, one per dated tile, are Now or a few ticks after.  *)
(* Record fields the properties below do not read (doctor, text, therapy,  *)
(* images) are left out of the records.                                    *)
(***************************************************************************)
EXTENDS Integers, Sequences, FiniteSets, TLC

\* ---------------------------------------------------------------- bounds
MaxTiles   == 3     \* most tile elements in a listing document
MaxAnchors == 2     \* most anchors matched by the fallback query
MaxStrLen  == 2     \* most tokens in a title text
Now        == 1000000 \* the tick at which main() reads the clock
TicksPerMinute == 10 \* resolution of the clock

\* ------------------------------------------------------- program constants
MAX_ITEMS     == 2      \* OTB_MAX_ITEMS (default 60), set low to exercise the cut
WindowMinutes == 1440   \* timedelta(hours=24)
NoneDt        == -1     \* None where a datetime is expected

BASE         == "https://www.orthobullets.com"
LIST_URL     == <<BASE, "/Site/ElasticSearch/StandardSearchTiles">>
CasePath     == "/Site/Cases/View/"
UntitledCase == <<"Untitled", " ", "case">>

\* ------------------------------------------------------------ pure helpers
Take(s, n) == SubSeq(s, 1, IF Len(s) < n THEN Len(s) ELSE n)

RECURSIVE LStrip(_)
LStrip(s) ==
  IF s = <<>> THEN <<>>
  ELSE IF Head(s) = " " THEN LStrip(Tail(s)) ELSE s

RECURSIVE JoinWords(_)
JoinWords(s) ==
  IF s = <<>> THEN <<>>
  ELSE IF Head(s) # " " THEN <<Head(s)>> \o JoinWords(Tail(s))
  ELSE LET r == LStrip(s)
       IN  IF r = <<>> THEN <<>> ELSE <<" ">> \o JoinWords(r)

\* " ".join((s or "").split())
norm(s) == JoinWords(LStrip(s))

\* hashlib.sha1(s).hexdigest(): a deterministic, injective tag on the URLs used
guid(s) == <<"sha1">> \o s

\* dt.strftime(...) and dt.isoformat(): tagged renderings of an instant
rfc2822(dt)   == <<"rfc2822", dt>>
isoformat(dt) == <<"iso", dt>>

StartsWithHttp(href) == href # <<>> /\ Head(href) \in {BASE, "https://example.org"}

abs_url(base, href) ==
  IF href = <<>> THEN <<>>
  ELSE IF StartsWithHttp(href) THEN href ELSE <<base>> \o href

IsCaseLink(href) == \E i \in 1..Len(href) : href[i] = CasePath

\* parse_relative_age_to_dt: age is the "<n> <unit> ago" match of the tile text
UnitMinutes(unit) ==
  CASE unit = "minute" -> 1
    [] unit = "hour"   -> 60
    [] unit = "day"    -> 24 * 60
    [] unit = "week"   -> 7 * 24 * 60
    [] unit = "month"  -> 30 * 24 * 60
    [] unit = "year"   -> 365 * 24 * 60

\* now is the reading of now_utc() taken for this tile
parse_relative_age_to_dt(age, now) ==
  IF age.unit = "none" THEN NoneDt
  ELSE now - age.n * UnitMinutes(age.unit) * TicksPerMinute

\* ------------------------------------------------------------- input sets
CaseHrefs == { <<CasePath, "1">>, <<BASE, CasePath, "1">>, <<CasePath, "2">> }
OtherHref == <<"/Site/Topics/", "9">>
Hrefs     == CaseHrefs \cup {OtherHref}

NoAge == [n |-> 0, unit |-> "none"]
Ages  == { NoAge, [n |-> 1, unit |-> "hour"], [n |-> 25, unit |-> "hour"] }

\* a tile: whether it holds an anchor, the anchor's href, the age in its text
\* (the age is read only for a tile whose link is kept)
Tiles ==
  { [hasA |-> FALSE, href |-> <<>>, age |-> NoAge],
    [hasA |-> TRUE, href |-> OtherHref, age |-> NoAge] } \cup
  { [hasA |-> TRUE, href |-> h, age |-> a] : h \in CaseHrefs, a \in Ages }

SeqsUpTo(S, n) == UNION { [1..k -> S] : k \in 0..n }

\* what page.content() can hold: the matches of the tile query, and of the
\* anchor query, which is evaluated only when the tile query matched nothing
Docs ==
  { [tiles |-> t, anchors |-> <<>>] : t \in SeqsUpTo(Tiles, MaxTiles) } \cup
  { [tiles |-> <<>>, anchors |-> a] : a \in SeqsUpTo(Hrefs \cup {<<>>}, MaxAnchors) }

NoDoc == [tiles |-> <<>>, anchors |-> <<>>]

Strings == SeqsUpTo({" ", "a"}, MaxStrLen)

\* get_attribute("content") of og:title: a string, None, or PWTimeout
OgOutcomes ==
  { [kind |-> "timeout", val |-> <<>>], [kind |-> "none", val |-> <<>>] } \cup
  { [kind |-> "str", val |-> s] : s \in Strings }

\* page.title(): a string, or an exception
PtOutcomes ==
  { [kind |-> "raise", val |-> <<>>] } \cup
  { [kind |-> "str", val |-> s] : s \in Strings }

\* detail pages opened during a run: (og:title, page.title(), published_at)
DetailPages ==
  { [og |-> [kind |-> "str", val |-> <<"a">>],
     pt |-> [kind |-> "str", val |-> <<"a">>], published_at |-> NoneDt],
    [og |-> [kind |-> "none", val |-> <<>>],
     pt |-> [kind |-> "str", val |-> <<>>],
     published_at |-> Now - 180 * TicksPerMinute],
    [og |-> [kind |-> "timeout", val |-> <<>>],
     pt |-> [kind |-> "raise", val |-> <<>>],
     published_at |-> Now - 1800 * TicksPerMinute] }

\* --------------------------------------------------------------- the state
VARIABLES
  pc,            \* position of main()
  email,         \* EMAIL
  password,      \* PASSWORD
  pw,            \* the Playwright driver of the with block
  browser,       \* the browser launched by login_and_collect_tiles
  loads,         \* URLs handed to page.goto, in order
  page,          \* the listing document read by page.content()
  tiles,         \* candidates returned by login_and_collect_tiles
  prelim,        \* candidates left by the pre-filter
  idx,           \* position of the detail loop in prelim
  det,           \* per candidate: outcome of its detail extraction
  kept,          \* records kept so far
  fatal,         \* the handler of main's outer try ran
  rssFile,       \* OUTPUT_RSS
  jsonFile,      \* OUTPUT_JSON
  identityFile,  \* the persisted identity set on disk
  tcase          \* one title extraction: inputs and result

vars == << pc, email, password, pw, browser, loads, page, tiles, prelim, idx,
           det, kept, fatal, rssFile, jsonFile, identityFile, tcase >>

NotWritten == [written |-> FALSE, items |-> <<>>]
NoTitleCase ==
  [st |-> "idle", og |-> [kind |-> "none", val |-> <<>>],
   pt |-> [kind |-> "raise", val |-> <<>>], link |-> <<>>, title |-> <<>>]

cutoff == Now - WindowMinutes * TicksPerMinute

\* ------------------------------------------------ login_and_collect_tiles
MissingCredentialsM(e, p) == e = <<>> /\ p = <<>>
MissingCredentials(e, p) == e = <<>> \/ p = <<>>

RECURSIVE FallbackScan(_)
FallbackScan(anchors) ==
  IF anchors = <<>> THEN <<>>
  ELSE LET href == abs_url(BASE, Head(anchors))
           rest == FallbackScan(Tail(anchors))
       IN  IF href = <<>> \/ ~IsCaseLink(href) THEN rest
           ELSE <<[link |-> href, pub_dt |-> NoneDt]>> \o rest

\* now is the clock when the scan reaches Head(ts); step is the time one tile
\* takes
RECURSIVE TileScan(_, _, _, _)
TileScan(ts, seen, now, step) ==
  IF ts = <<>> THEN <<>>
  ELSE LET tile == Head(ts)
           href == abs_url(BASE, tile.href)
           rest(sn) == TileScan(Tail(ts), sn, now + step, step)
       IN  IF ~tile.hasA THEN rest(seen)
           ELSE IF href = <<>> \/ ~IsCaseLink(href) THEN rest(seen)
           ELSE IF href \in seen THEN rest(seen)
           ELSE <<[link |-> href,
                   pub_dt |-> parse_relative_age_to_dt(tile.age, now)]>>
                  \o rest(seen \cup {href})

CollectFrom(doc, step) ==
  IF doc.tiles = <<>> THEN Take(FallbackScan(doc.anchors), MAX_ITEMS)
  ELSE Take(TileScan(doc.tiles, {}, Now + step, step), MAX_ITEMS)

\* ------------------------------------------------------------ extract_case
ExtractTitleM(og, pt, link) ==
  LET t0 == IF og.kind = "str" THEN og.val ELSE <<>>
      t1 == IF t0 # <<>> THEN t0
            ELSE IF pt.kind = "raise" THEN link ELSE pt.val
  IN  norm(t1)

ExtractTitle(og, pt, link) ==
  LET t0 == IF og.kind = "str" THEN og.val ELSE <<>>
      t1 == IF t0 # <<>> THEN t0
            ELSE IF pt.kind = "raise" THEN link ELSE pt.val
      t2 == norm(t1)
  IN  IF t2 # <<>> THEN t2 ELSE UntitledCase

\* -------------------------------------------------------------------- main
RECURSIVE PreFilter(_)
PreFilter(ts) ==
  IF ts = <<>> THEN <<>>
  ELSE IF Head(ts).pub_dt # NoneDt /\ Head(ts).pub_dt < cutoff
       THEN PreFilter(Tail(ts))
       ELSE <<Head(ts)>> \o PreFilter(Tail(ts))

FinalPubDtM(hint, published_at) ==
  IF published_at # NoneDt THEN published_at ELSE hint

FinalPubDt(hint, published_at) ==
  IF hint = NoneDt /\ published_at # NoneDt THEN published_at ELSE hint

TooOldM(pub_dt) == pub_dt > cutoff
TooOld(pub_dt) == pub_dt < cutoff

RECURSIVE InsertDescM(_, _)
InsertDescM(sorted, x) ==
  IF sorted = <<>> THEN <<x>>
  ELSE IF Head(sorted).pub_dt > x.pub_dt
       THEN <<Head(sorted)>> \o InsertDescM(Tail(sorted), x)
       ELSE <<x>> \o sorted

\* list.sort(key=pub_dt, reverse=True) is stable: x goes after every element
\* whose key is not smaller
RECURSIVE InsertDesc(_, _)
InsertDesc(sorted, x) ==
  IF sorted = <<>> THEN <<x>>
  ELSE IF Head(sorted).pub_dt >= x.pub_dt
       THEN <<Head(sorted)>> \o InsertDesc(Tail(sorted), x)
       ELSE <<x>> \o sorted

RECURSIVE SortDesc(_)
SortDesc(s) ==
  IF s = <<>> THEN <<>>
  ELSE InsertDesc(SortDesc(SubSeq(s, 1, Len(s) - 1)), s[Len(s)])

build_rss(items) ==
  [written |-> TRUE,
   items |-> [i \in 1..Len(items) |->
                [title |-> items[i].title, link |-> items[i].link,
                 guid |-> items[i].id, pubDate |-> rfc2822(items[i].pub_dt)]]]

json_payload(items) ==
  [written |-> TRUE,
   items |-> [i \in 1..Len(items) |->
                [title |-> items[i].title, link |-> items[i].link,
                 published_at |-> isoformat(items[i].pub_dt),
                 id |-> items[i].id]]]

\* ----------------------------------------------------------------- actions
Credentials == { <<>>, <<"secret">> }

Init ==
  /\ pc = "start"
  /\ email \in Credentials
  /\ password \in Credentials
  /\ pw = "none"
  /\ browser = "none"
  /\ loads = <<>>
  /\ page = NoDoc
  /\ tiles = <<>>
  /\ prelim = <<>>
  /\ idx = 1
  /\ det = <<>>
  /\ kept = <<>>
  /\ fatal = FALSE
  /\ rssFile = NotWritten
  /\ jsonFile = NotWritten
  /\ identityFile = {guid(<<BASE, CasePath, "1">>)}
  /\ tcase = NoTitleCase

\* with sync_playwright() as pw
EnterWith ==
  /\ pc = "start"
  /\ pw' = "running"
  /\ pc' = "creds"
  /\ UNCHANGED << email, password, browser, loads, page, tiles, prelim, idx,
                  det, kept, fatal, rssFile, jsonFile, identityFile, tcase >>

\* if not EMAIL or not PASSWORD: raise RuntimeError
CredentialsMissing ==
  /\ pc = "creds"
  /\ MissingCredentials(email, password)
  /\ pc' = "raised"
  /\ UNCHANGED << email, password, pw, browser, loads, page, tiles, prelim,
                  idx, det, kept, fatal, rssFile, jsonFile, identityFile, tcase >>

\* pw.chromium.launch, new_context, new_page
LaunchBrowser ==
  /\ pc = "creds"
  /\ ~MissingCredentials(email, password)
  /\ browser' = "open"
  /\ pc' = "goto"
  /\ UNCHANGED << email, password, pw, loads, page, tiles, prelim, idx, det,
                  kept, fatal, rssFile, jsonFile, identityFile, tcase >>

\* page.goto(LIST_URL): lands on the listing or on the login page
GotoListing ==
  /\ pc = "goto"
  /\ loads' = Append(loads, LIST_URL)
  /\ \E land \in {"content", "login"} : pc' = land
  /\ UNCHANGED << email, password, pw, browser, page, tiles, prelim, idx, det,
                  kept, fatal, rssFile, jsonFile, identityFile, tcase >>

\* fill the form, submit, wait, page.goto(LIST_URL) again
SubmitLogin ==
  /\ pc = "login"
  /\ loads' = Append(loads, LIST_URL)
  /\ pc' = "content"
  /\ UNCHANGED << email, password, pw, browser, page, tiles, prelim, idx, det,
                  kept, fatal, rssFile, jsonFile, identityFile, tcase >>

\* a page.goto, the login, or reading the page raises (timeout, navigation
\* error, unparseable content)
FetchError ==
  /\ pc \in {"goto", "login", "content"}
  /\ loads' = IF pc = "content" THEN loads ELSE Append(loads, LIST_URL)
  /\ pc' = "raised"
  /\ UNCHANGED << email, password, pw, browser, page, tiles, prelim, idx, det,
                  kept, fatal, rssFile, jsonFile, identityFile, tcase >>

\* page.content(), the tile or anchor scan, return out[:MAX_ITEMS]
CollectTiles ==
  /\ pc = "content"
  /\ \E doc \in Docs, step \in {0, 1} :
       /\ page' = doc
       /\ tiles' = CollectFrom(doc, step)
  /\ pc' = "prefilter"
  /\ UNCHANGED << email, password, pw, browser, loads, prelim, idx, det, kept,
                  fatal, rssFile, jsonFile, identityFile, tcase >>

\* the pre-filter by the list-page hint; prelim holds positions in tiles
PreFilterTiles ==
  /\ pc = "prefilter"
  /\ prelim' = PreFilter([i \in 1..Len(tiles) |->
                            [link |-> tiles[i].link, pub_dt |-> tiles[i].pub_dt,
                             pos |-> i]])
  /\ det' = [i \in 1..Len(tiles) |-> [st |-> "pending", published_at |-> NoneDt]]
  /\ idx' = 1
  /\ pc' = "loop"
  /\ UNCHANGED << email, password, pw, browser, loads, page, tiles, kept,
                  fatal, rssFile, jsonFile, identityFile, tcase >>

\* one iteration whose extract_case returns
ExtractOk ==
  /\ pc = "loop"
  /\ idx <= Len(prelim)
  /\ \E data \in DetailPages :
       LET t      == prelim[idx]
           pub_dt == FinalPubDt(t.pub_dt, data.published_at)
       IN  /\ det' = [det EXCEPT ![t.pos] =
                        [st |-> "ok", published_at |-> data.published_at]]
           /\ kept' = IF pub_dt = NoneDt THEN kept
                      ELSE IF TooOld(pub_dt) THEN kept
                      ELSE Append(kept,
                             [title |-> ExtractTitle(data.og, data.pt, t.link),
                              link |-> t.link, id |-> guid(t.link),
                              pub_dt |-> pub_dt, src |-> t.pos])
  /\ loads' = Append(loads, prelim[idx].link)
  /\ idx' = idx + 1
  /\ UNCHANGED << pc, email, password, pw, browser, page, tiles, prelim, fatal,
                  rssFile, jsonFile, identityFile, tcase >>

ExtractFailM ==
  /\ pc = "loop"
  /\ idx <= Len(prelim)
  /\ det' = [det EXCEPT ![prelim[idx].pos] =
               [st |-> "failed", published_at |-> NoneDt]]
  /\ loads' = Append(loads, prelim[idx].link)
  /\ pc' = "raised"
  /\ UNCHANGED << email, password, pw, browser, page, tiles, prelim, idx, kept,
                  fatal, rssFile, jsonFile, identityFile, tcase >>

\* one iteration whose extract_case raises: logged, continue
ExtractFail ==
  /\ pc = "loop"
  /\ idx <= Len(prelim)
  /\ det' = [det EXCEPT ![prelim[idx].pos] =
               [st |-> "failed", published_at |-> NoneDt]]
  /\ loads' = Append(loads, prelim[idx].link)
  /\ idx' = idx + 1
  /\ UNCHANGED << pc, email, password, pw, browser, page, tiles, prelim, kept,
                  fatal, rssFile, jsonFile, identityFile, tcase >>

\* an exception raised in the loop outside the per-item try leaves the loop
LoopAbort ==
  /\ pc = "loop"
  /\ idx <= Len(prelim)
  /\ pc' = "raised"
  /\ UNCHANGED << email, password, pw, browser, loads, page, tiles, prelim,
                  idx, det, kept, fatal, rssFile, jsonFile, identityFile, tcase >>

\* try: browser.close() / except Exception: pass
CloseBrowser ==
  /\ pc = "loop"
  /\ idx > Len(prelim)
  /\ \E closed \in BOOLEAN : browser' = IF closed THEN "closed" ELSE browser
  /\ pc' = "exit"
  /\ UNCHANGED << email, password, pw, loads, page, tiles, prelim, idx, det,
                  kept, fatal, rssFile, jsonFile, identityFile, tcase >>

ExitWithM ==
  /\ pc \in {"exit", "raised"}
  /\ pw' = "stopped"
  /\ pc' = IF pc = "raised" THEN "handler" ELSE "write"
  /\ UNCHANGED << email, password, browser, loads, page, tiles, prelim, idx,
                  det, kept, fatal, rssFile, jsonFile, identityFile, tcase >>

\* leaving the with block, normally or by an exception: the driver is stopped,
\* which ends every browser it launched
ExitWith ==
  /\ pc \in {"exit", "raised"}
  /\ pw' = "stopped"
  /\ browser' = IF browser = "open" THEN "closed" ELSE browser
  /\ pc' = IF pc = "raised" THEN "handler" ELSE "write"
  /\ UNCHANGED << email, password, loads, page, tiles, prelim, idx, det, kept,
                  fatal, rssFile, jsonFile, identityFile, tcase >>

HandleExceptionM ==
  /\ pc = "handler"
  /\ fatal' = TRUE
  /\ pc' = "done"
  /\ UNCHANGED << email, password, pw, browser, loads, page, tiles, prelim,
                  idx, det, kept, rssFile, jsonFile, identityFile, tcase >>

\* except Exception as e: log("FATAL during run")
HandleException ==
  /\ pc = "handler"
  /\ fatal' = TRUE
  /\ pc' = "write"
  /\ UNCHANGED << email, password, pw, browser, loads, page, tiles, prelim,
                  idx, det, kept, rssFile, jsonFile, identityFile, tcase >>

\* kept.sort, kept[:MAX_ITEMS], build_rss + safe_write, safe_write_json
WriteOutputs ==
  /\ pc = "write"
  /\ kept' = Take(SortDesc(kept), MAX_ITEMS)
  /\ rssFile' = build_rss(kept')
  /\ jsonFile' = json_payload(kept')
  /\ pc' = "done"
  /\ UNCHANGED << email, password, pw, browser, loads, page, tiles, prelim,
                  idx, det, fatal, identityFile, tcase >>

Next ==
  \/ EnterWith
  \/ CredentialsMissing
  \/ LaunchBrowser
  \/ GotoListing
  \/ SubmitLogin
  \/ FetchError
  \/ CollectTiles
  \/ PreFilterTiles
  \/ ExtractOk
  \/ ExtractFail
  \/ LoopAbort
  \/ CloseBrowser
  \/ ExitWith
  \/ HandleException
  \/ WriteOutputs

Spec == Init /\ [][Next]_vars

\* ------------------------------------------------------------- properties
Emitted(pos) == \E i \in 1..Len(kept) : kept[i].src = pos

\* the effective timestamp of the candidate at pos, by the stated precedence:
\* the list hint if present, else the detail-page date, else unknown
EffectiveTs(pos) ==
  IF tiles[pos].pub_dt # NoneDt THEN tiles[pos].pub_dt
  ELSE det[pos].published_at

\* det has an entry for every candidate (the pre-filter has run)
Collected == Len(det) = Len(tiles)

\* C1: a run that has terminated has written both documents, also after a
\* failure (missing credentials, listing fetch error, exception during
\* collection), and both hold exactly the records kept so far.
C1_AlwaysWritesBoth ==
  pc = "done" =>
    /\ rssFile.written
    /\ jsonFile.written
    /\ Len(rssFile.items) = Len(kept)
    /\ Len(jsonFile.items) = Len(kept)
    /\ \A i \in 1..Len(kept) :
         /\ rssFile.items[i].link = kept[i].link
         /\ jsonFile.items[i].link = kept[i].link
    /\ \A pos \in 1..Len(det) :
         (det[pos].st = "ok" /\ EffectiveTs(pos) # NoneDt
            /\ EffectiveTs(pos) >= Now - WindowMinutes * TicksPerMinute) => Emitted(pos)

C1_Witness ==
  /\ pc = "done"
  /\ fatal
  /\ jsonFile.written
  /\ Len(jsonFile.items) > 0
  /\ \E pos \in 1..Len(det) : det[pos].st = "pending"

C3_SortedStable ==
  pc = "done" =>
    /\ Len(rssFile.items) = Len(jsonFile.items)
    /\ Len(jsonFile.items) = Len(kept)
    /\ \A i \in 1..Len(jsonFile.items) :
         /\ rssFile.items[i].link = jsonFile.items[i].link
         /\ rssFile.items[i].guid = jsonFile.items[i].id
         /\ rssFile.items[i].pubDate[2] = jsonFile.items[i].published_at[2]
         /\ jsonFile.items[i].link = tiles[kept[i].src].link
    /\ \A i, j \in 1..Len(jsonFile.items) :
         i < j =>
           /\ jsonFile.items[i].published_at[2] >= jsonFile.items[j].published_at[2]
           /\ jsonFile.items[i].published_at[2] = jsonFile.items[j].published_at[2]
                => kept[i].src < kept[j].src

C3_Witness ==
  /\ pc = "done"
  /\ Len(jsonFile.items) = 2
  /\ kept[1].src > kept[2].src
  /\ jsonFile.items[1].published_at[2] > jsonFile.items[2].published_at[2]

\* the case links of the listing document, resolved, in document order
RECURSIVE ResolvedCaseLinks(_)
ResolvedCaseLinks(hrefs) ==
  IF hrefs = <<>> THEN <<>>
  ELSE LET h == IF Head(hrefs) = <<>> \/ Head(Head(hrefs)) = BASE
                THEN Head(hrefs) ELSE <<BASE>> \o Head(hrefs)
       IN  (IF h # <<>> /\ (\E i \in 1..Len(h) : h[i] = CasePath)
            THEN <<h>> ELSE <<>>) \o ResolvedCaseLinks(Tail(hrefs))

RECURSIVE FirstOccurrences(_, _)
FirstOccurrences(s, seen) ==
  IF s = <<>> THEN <<>>
  ELSE IF Head(s) \in seen THEN FirstOccurrences(Tail(s), seen)
  ELSE <<Head(s)>> \o FirstOccurrences(Tail(s), seen \cup {Head(s)})

DocHrefs ==
  IF page.tiles = <<>> THEN page.anchors
  ELSE [i \in 1..Len(page.tiles) |-> page.tiles[i].href]

\* C4: the candidates returned by the list collector are at most MAX_ITEMS, in
\* document order, and hold no URL twice (first occurrence kept), on the tile
\* path and on the fallback anchor path alike.
C4_CollectorBoundedUnique ==
  /\ Len(tiles) <= MAX_ITEMS
  /\ \A i, j \in 1..Len(tiles) : tiles[i].link = tiles[j].link => i = j
  /\ [i \in 1..Len(tiles) |-> tiles[i].link]
       = Take(FirstOccurrences(ResolvedCaseLinks(DocHrefs), {}), MAX_ITEMS)

C6_PerItemFailureIsolated ==
  Collected =>
    /\ \A i \in 1..Len(prelim) :
         LET pos == prelim[i].pos
         IN  /\ det[pos].st = "failed" =>
                  /\ i < idx
                  /\ ~Emitted(pos)
             /\ i < idx =>
                  /\ det[pos].st # "pending"
                  /\ \E k \in 1..Len(loads) : loads[k] = prelim[i].link
             /\ (det[pos].st = "ok" /\ EffectiveTs(pos) # NoneDt
                   /\ EffectiveTs(pos) >= Now - WindowMinutes * TicksPerMinute) => Emitted(pos)
    /\ (pc = "exit" \/ (pc \in {"write", "done"} /\ ~fatal))
         => idx = Len(prelim) + 1

C6_Witness ==
  /\ pc = "done"
  /\ ~fatal
  /\ Len(prelim) = 2
  /\ det[prelim[1].pos].st = "failed"
  /\ Emitted(prelim[2].pos)
  /\ Len(jsonFile.items) = 1

C9_NoActivityWithoutCredentials ==
  (email = <<>> \/ password = <<>>) =>
    /\ browser = "none"
    /\ loads = <<>>
    /\ kept = <<>>
    /\ tiles = <<>>
    /\ rssFile.items = <<>>
    /\ jsonFile.items = <<>>
    /\ pc \in {"start", "creds", "raised", "handler", "write", "done"}

C9_Witness ==
  /\ pc = "done"
  /\ email # <<>>
  /\ password = <<>>
  /\ fatal
  /\ jsonFile.written

\* C10: after a run the persisted identity set holds the id of every record
\* the run emitted, besides every id it held before.
C10_IdentityPersisted ==
  pc = "done" => \A i \in 1..Len(jsonFile.items) : jsonFile.items[i].id \in identityFile

\* ------------------------------------------------ title extraction alone
Links == { <<BASE, CasePath, "1">>, <<BASE, CasePath, "2">> }

TitleInit ==
  /\ pc = "title"
  /\ email = <<"secret">>
  /\ password = <<"secret">>
  /\ pw = "none"
  /\ browser = "none"
  /\ loads = <<>>
  /\ page = NoDoc
  /\ tiles = <<>>
  /\ prelim = <<>>
  /\ idx = 1
  /\ det = <<>>
  /\ kept = <<>>
  /\ fatal = FALSE
  /\ rssFile = NotWritten
  /\ jsonFile = NotWritten
  /\ identityFile = {}
  /\ \E o \in OgOutcomes, p \in PtOutcomes, l \in Links :
       tcase = [st |-> "input", og |-> o, pt |-> p, link |-> l, title |-> <<>>]

\* the title block of extract_case on one detail page
TitleExtract ==
  /\ tcase.st = "input"
  /\ tcase' = [tcase EXCEPT !.st = "done",
                            !.title = ExtractTitle(tcase.og, tcase.pt, tcase.link)]
  /\ UNCHANGED << pc, email, password, pw, browser, loads, page, tiles, prelim,
                  idx, det, kept, fatal, rssFile, jsonFile, identityFile >>

TitleNext == TitleExtract

SpecTitle == TitleInit /\ [][TitleNext]_vars

OgEmpty == tcase.og.kind # "str" \/ tcase.og.val = <<>>

====
